---------------------------- MODULE Spec2Model ----------------------------
(***************************************************************************)
(* Model of host/src/main.rs of r0-bitvm-blake3: the host proves a guest   *)
(* program with the Groth16 prover options, derives the BLAKE3-bound       *)
(* public input from the journal, parses the 256-byte seal into an         *)
(* arkworks proof and verifies it against the fixed BN254 verifying key.   *)
(*                                                                         *)
(* Byte strings are sequences of 0..255, big-endian where they encode a    *)
(* number.  A field element is kept as its canonical 32-byte big-endian    *)
(* encoding (a value below the modulus); arithmetic is done on limbs of    *)
(* three bytes, so no integer exceeds 2^25 and the 254-bit arithmetic is   *)
(* exact.                                                                  *)
(*                                                                         *)
(* Library calls whose result the host cannot compute here (the prover,    *)
(* receipt.verify, SHA-256, BLAKE3, the G2 subgroup test of a point other  *)
(* than the generator, the pairing product) are inputs of the step that    *)
(* makes the call.                                                         *)
(***************************************************************************)
EXTENDS Integers, Sequences, FiniteSets, TLC

VARIABLES
    pc,                     \* the statement of main about to run
    panic,                  \* the panic that aborted the process, or None
    log,                    \* the steps of main run so far, in order
    backend,                \* constants of the risc0 crates linked in
    method_id,              \* METHOD_ID
    receipt,                \* prove_info.receipt
    receipt_verdict,        \* the Result of receipt.verify(METHOD_ID)
    sha_input,              \* bytes fed to the Sha256 hasher (lines 110-113)
    output_prefix,          \* calculate_succinct_output_prefix(METHOD_ID)
    blake3_input,           \* bytes fed to the blake3 hasher (lines 60-61)
    expected_output,        \* the 32-byte blake3 digest, line 62
    expected_output_bytes,  \* line 58
    groth_seal,             \* groth_proof.seal
    ark_proof,              \* line 72
    public_inputs,          \* &[public_input_scalar], line 82
    ark_vk,                 \* line 76
    ark_pvk,                \* line 77
    res                     \* the Result of verify_proof, line 79

vars == <<pc, panic, log, backend, method_id, receipt, receipt_verdict,
          sha_input, output_prefix, blake3_input, expected_output,
          expected_output_bytes, groth_seal, ark_proof, public_inputs,
          ark_vk, ark_pvk, res>>

\* A variable not yet assigned holds None; an assigned one holds Some(value).
None == {}

Some(v) == {v}

Get(opt) == CHOOSE v \in opt : TRUE

(***************************************************************************)
(* Byte strings                                                            *)
(***************************************************************************)
DigestLen == 32

SealLen == 256

TruncLen == 31

\* The value of a singleton set; binding a computed value to a bound variable
\* makes TLC evaluate it once.
The(S) == CHOOSE x \in S : TRUE

Fill(n, b) == [i \in 1..n |-> b]

Zeros(n) == Fill(n, 0)

\* The big-endian encoding of a small number v < 256 on n bytes.
Small(n, v) == [i \in 1..n |-> IF i = n THEN v ELSE 0]

\* a < b for big-endian byte strings of equal length.
Lt(a, b) ==
    \E i \in 1..Len(a) :
        /\ a[i] < b[i]
        /\ \A j \in 1..(i - 1) : a[j] = b[j]

\* A byte string as a number in base 2^24: limbs of three bytes, most
\* significant first, the first limb padded with zero bytes on the left.
Limbs(a) ==
    The({ LET n == (Len(av) + 2) \div 3
              pad == 3 * n - Len(av)
              P(q) == IF q <= pad THEN 0 ELSE av[q - pad]
          IN [k \in 1..n |-> 65536 * P(3 * k - 2) + 256 * P(3 * k - 1) + P(3 * k)] \o <<>> :
          av \in {a} })

\* The n low bytes of the number with limbs l.
Bytes(l, n) ==
    The({ LET pad == 3 * Len(lv) - n IN
          [i \in 1..n |->
              (lv[(i + pad + 2) \div 3] \div (256 ^ (2 - ((i + pad - 1) % 3)))) % 256] \o <<>> :
          lv \in {l} })

\* x < y for limb strings of equal length.
LimbLt(x, y) ==
    \E i \in 1..Len(x) :
        /\ x[i] < y[i]
        /\ \A j \in 1..(i - 1) : x[j] = y[j]

\* x + y modulo 2^(24 Len(x)): limb k receives a carry exactly when some lower
\* limb pair overflows and every pair between sums to 2^24 - 1.
LimbAdd(x, y) ==
    The({ [k \in 1..Len(s) |->
             LET carry == IF \E j \in (k + 1)..Len(s) :
                                /\ s[j] > 16777215
                                /\ \A i \in (k + 1)..(j - 1) : s[i] = 16777215
                          THEN 1 ELSE 0
             IN (s[k] + carry) % 16777216] \o <<>> :
          s \in { [k \in 1..Len(x) |-> x[k] + y[k]] \o <<>> } })

\* x - y for x >= y: limb k borrows exactly when the lower limbs of x are
\* below those of y.
LimbSub(x, y) ==
    The({ [k \in 1..Len(d) |->
             LET borrow == IF \E j \in (k + 1)..Len(d) :
                                 /\ d[j] < 0
                                 /\ \A i \in (k + 1)..(j - 1) : d[i] = 0
                           THEN 1 ELSE 0
             IN (d[k] - borrow + 16777216) % 16777216] \o <<>> :
          d \in { [k \in 1..Len(x) |-> x[k] - y[k]] \o <<>> } })

\* a - b for big-endian byte strings of equal length with a >= b.
Sub(a, b) ==
    The({ Bytes(d, Len(a)) : d \in { LimbSub(x, y) : x \in {Limbs(a)}, y \in {Limbs(b)} } })

\* a + b modulo 256^Len(a).
Add(a, b) ==
    The({ Bytes(s, Len(a)) : s \in { LimbAdd(x, y) : x \in {Limbs(a)}, y \in {Limbs(b)} } })

\* The byte left as it is.
reverse_bits_identity(b) == b

\* u8::reverse_bits
reverse_bits(b) ==
      128 * (b % 2)
    + 64 * ((b \div 2) % 2)
    + 32 * ((b \div 4) % 2)
    + 16 * ((b \div 8) % 2)
    + 8 * ((b \div 16) % 2)
    + 4 * ((b \div 32) % 2)
    + 2 * ((b \div 64) % 2)
    + ((b \div 128) % 2)

(***************************************************************************)
(* BN254 prime fields (ark_bn254::Fq, ark_bn254::Fr)                       *)
(***************************************************************************)
\* 0x30644e72e131a029b85045b68181585d97816a916871ca8d3c208c16d87cfd47
FqModulus ==
    << 48, 100,  78, 114, 225,  49, 160,  41, 184,  80,  69, 182, 129, 129,
       88,  93, 151, 129, 106, 145, 104, 113, 202, 141,  60,  32, 140,  22,
      216, 124, 253,  71>>

\* 0x30644e72e131a029b85045b68181585d2833e84879b9709143e1f593f0000001
FrModulus ==
    << 48, 100,  78, 114, 225,  49, 160,  41, 184,  80,  69, 182, 129, 129,
       88,  93,  40,  51, 232,  72, 121, 185, 112, 145,  67, 225, 245, 147,
      240,   0,   0,   1>>

RECURSIVE Reduce(_, _)
\* x mod m by repeated subtraction (x < 2^256 < 6 m for both moduli).
Reduce(x, m) ==
    IF Lt(x, m) THEN x ELSE The({ Reduce(d, m) : d \in {Sub(x, m)} })

\* PrimeField::from_be_bytes_mod_order for at most 32 bytes: the big-endian
\* value of the bytes, reduced modulo the field order.
from_be_bytes_mod_order(bytes, m) ==
    The({ Reduce(x, m) : x \in {Zeros(DigestLen - Len(bytes)) \o bytes} })

\* a + b in the field (a, b < m < 2^255, so the 32-byte sum does not wrap).
ModAdd(a, b, m) == The({ Reduce(s, m) : s \in {Add(a, b)} })

\* x mod m for a limb string x < 2 m.
LimbMod(x, m) ==
    The({ IF LimbLt(xv, m) THEN xv ELSE LimbSub(xv, m) : xv \in {x} })

\* One double-and-add step on limb strings: 2 acc + bit * a in the field.
MulStep(acc, a, bit, m) ==
    The({ IF bit = 1 THEN LimbMod(LimbAdd(dbl, a), m) ELSE dbl :
            dbl \in { LimbMod(LimbAdd(acc, acc), m) } })

\* 256 acc + byte * a in the field, most significant bit of the byte first.
MulByte(acc, a, byte, m) ==
    The({ MulStep(s1, a, byte % 2, m) : s1 \in
        { MulStep(s2, a, (byte \div 2) % 2, m) : s2 \in
        { MulStep(s3, a, (byte \div 4) % 2, m) : s3 \in
        { MulStep(s4, a, (byte \div 8) % 2, m) : s4 \in
        { MulStep(s5, a, (byte \div 16) % 2, m) : s5 \in
        { MulStep(s6, a, (byte \div 32) % 2, m) : s6 \in
        { MulStep(s7, a, (byte \div 64) % 2, m) : s7 \in
        { MulStep(acc, a, (byte \div 128) % 2, m) } } } } } } } })

RECURSIVE MulUpTo(_, _, _, _)
\* The limbs of a times the number written by the first n bytes of b, in the
\* field; a and m are limb strings.
MulUpTo(a, b, m, n) ==
    IF \A k \in 1..n : b[k] = 0 THEN Limbs(Zeros(Len(b)))
    ELSE The({ MulByte(prev, a, b[n], m) : prev \in {MulUpTo(a, b, m, n - 1)} })

\* a * b in the field.
ModMul(a, b, m) ==
    The({ Bytes(prod, Len(m)) : prod \in
        { MulUpTo(x, bv, lm, Len(bv)) : x \in {Limbs(a)}, bv \in {b}, lm \in {Limbs(m)} } })

\* a - b in the field.
ModSub(a, b, m) ==
    The({ IF Lt(av, bv) THEN The({ Sub(s, bv) : s \in {Add(av, m)} })
          ELSE Sub(av, bv) : av \in {a}, bv \in {b} })

(***************************************************************************)
(* BN254 G1 (ark_bn254::G1Affine): y^2 = x^3 + 3, cofactor 1               *)
(***************************************************************************)
CurveB == Small(DigestLen, 3)

\* Affine::is_on_curve for G1.  The cofactor of G1 is 1, so
\* is_in_correct_subgroup_assuming_on_curve is true of every curve point.
IsOnCurveG1(x, y) ==
    \E xv \in {x}, yv \in {y} :
    \E y2 \in {ModMul(yv, yv, FqModulus)} :
    \E x2 \in {ModMul(xv, xv, FqModulus)} :
    \E x3 \in {ModMul(x2, xv, FqModulus)} :
        y2 = ModAdd(x3, CurveB, FqModulus)

\* Affine::new_unchecked: no assertion.
G1Affine_new_unchecked(x, y) == TRUE

\* short_weierstrass::Affine::new (ark-ec 0.4): asserts is_on_curve and
\* is_in_correct_subgroup_assuming_on_curve, then returns the point.
G1Affine_new(x, y) == IsOnCurveG1(x, y)

(***************************************************************************)
(* BN254 G2 (ark_bn254::G2Affine): y^2 = x^3 + 3/(9 + u) over               *)
(* Fq2 = Fq[u]/(u^2 + 1)                                                   *)
(***************************************************************************)
Fq2Add(a, b) ==
    [c0 |-> ModAdd(a.c0, b.c0, FqModulus), c1 |-> ModAdd(a.c1, b.c1, FqModulus)]

\* (a0 + a1 u)(b0 + b1 u) = (a0 b0 - a1 b1) + (a0 b1 + a1 b0) u
Fq2Mul(a, b) ==
    The({ [c0 |-> ModSub(p00, p11, FqModulus), c1 |-> ModAdd(p01, p10, FqModulus)] :
            p00 \in {ModMul(a.c0, b.c0, FqModulus)},
            p11 \in {ModMul(a.c1, b.c1, FqModulus)},
            p01 \in {ModMul(a.c0, b.c1, FqModulus)},
            p10 \in {ModMul(a.c1, b.c0, FqModulus)} })

\* 0x2b149d40ceb8aaae81be18991be06ac3b5b4c5e559dbefa33267e6dc24a138e5
TwistB_c0 ==
    <<  43,  20, 157,  64, 206, 184, 170, 174, 129, 190,  24, 153,  27, 224,
       106, 195, 181, 180, 197, 229,  89, 219, 239, 163,  50, 103, 230, 220,
        36, 161,  56, 229 >>

\* 0x9713b03af0fed4cd2cafadeed8fdf4a74fa084e52d1852e4a2bd0685c315d2
TwistB_c1 ==
    <<   0, 151,  19, 176,  58, 240, 254, 212, 205,  44, 175, 173, 238, 216,
       253, 244, 167,  79, 160, 132, 229,  45,  24,  82, 228, 162, 189,   6,
       133, 195,  21, 210 >>

\* g2::Config::COEFF_B = 3/(9 + u)
TwistB == [c0 |-> TwistB_c0, c1 |-> TwistB_c1]

\* The curve equation of the twist at (x, y).
TwistEquation(x, y) ==
    \E xv \in {x}, yv \in {y} :
    \E y2 \in {Fq2Mul(yv, yv)} :
    \E x2 \in {Fq2Mul(xv, xv)} :
    \E x3 \in {Fq2Mul(x2, xv)} :
        y2 = Fq2Add(x3, TwistB)

\* 10857046999023057135944570762232829481370756359578518086990519993285655852781
G2_GENERATOR_X_C0 ==
    <<  24,   0, 222, 239,  18,  31,  30, 118,  66, 106,   0, 102,  94,  92,
        68, 121, 103,  67,  34, 212, 247,  94, 218, 221,  70, 222, 189,  92,
       217, 146, 246, 237 >>

\* 11559732032986387107991004021392285783925812861821192530917403151452391805634
G2_GENERATOR_X_C1 ==
    <<  25, 142, 147, 147, 146,  13,  72,  58, 114,  96, 191, 183,  49, 251,
        93,  37, 241, 170,  73,  51,  53, 169, 231,  18, 151, 228, 133, 183,
       174, 243,  18, 194 >>

\* 8495653923123431417604973247489272438418190587263600148770280649306958101930
G2_GENERATOR_Y_C0 ==
    <<  18, 200,  94, 165, 219, 140, 109, 235,  74, 171, 113, 128, 141, 203,
        64, 143, 227, 209, 231, 105,  12,  67, 211, 123,  76, 230, 204,   1,
       102, 250, 125, 170 >>

\* 4082367875863433681332203403145435568316851327593401208105741076214120093531
G2_GENERATOR_Y_C1 ==
    <<   9,   6, 137, 208,  88,  95, 240, 117, 236, 158, 153, 173, 105,  12,
        51, 149, 188,  75,  49,  51, 112, 179, 142, 243,  85, 172, 218, 220,
       209,  34, 151,  91 >>

\* The generator of the order-r subgroup of the twist; gamma_g2 of the key
\* (lines 194-215) is this point.
G2Generator ==
    [x |-> [c0 |-> G2_GENERATOR_X_C0, c1 |-> G2_GENERATOR_X_C1],
     y |-> [c0 |-> G2_GENERATOR_Y_C0, c1 |-> G2_GENERATOR_Y_C1]]

\* The generator with the two elements of each coordinate exchanged, and the
\* point of all-zero coordinates.
G2Exchanged ==
    [x |-> [c0 |-> G2_GENERATOR_X_C1, c1 |-> G2_GENERATOR_X_C0],
     y |-> [c0 |-> G2_GENERATOR_Y_C1, c1 |-> G2_GENERATOR_Y_C0]]

G2Zero ==
    [x |-> [c0 |-> Zeros(DigestLen), c1 |-> Zeros(DigestLen)],
     y |-> [c0 |-> Zeros(DigestLen), c1 |-> Zeros(DigestLen)]]

\* The points above that satisfy the curve equation, computed once.
OnTwist == { pt \in {G2Generator, G2Exchanged, G2Zero} : TwistEquation(pt.x, pt.y) }

\* Affine::is_on_curve for G2: the curve equation, looked up for the three
\* points above and evaluated for any other.
IsOnCurveG2(x, y) ==
    \E pt \in {[x |-> x, y |-> y]} :
        IF pt \in {G2Generator, G2Exchanged, G2Zero}
        THEN pt \in OnTwist
        ELSE TwistEquation(pt.x, pt.y)

\* Affine::is_in_correct_subgroup_assuming_on_curve for G2 (the twist has a
\* cofactor): true of the generator; for any other curve point the verdict
\* is part of the step's input.
IsInSubgroupG2(x, y, verdict) ==
    [x |-> x, y |-> y] = G2Generator \/ verdict

\* G2Affine::new: the same two assertions on the twist.
G2Affine_new(x, y, verdict) ==
    IsOnCurveG2(x, y) /\ IsInSubgroupG2(x, y, verdict)

Ok(v) == [ok |-> TRUE, val |-> v]

Err(e) == [ok |-> FALSE, err |-> e]

\* A panic raised by the statement starting at `line`.
Panic(line, kind) == [line |-> line, kind |-> kind]

\* &seal_bytes[lo..hi]; indexing panics when hi exceeds the length.
Slice(bytes, lo, hi) == SubSeq(bytes, lo + 1, hi)

Fq(bytes) == from_be_bytes_mod_order(bytes, FqModulus)

\* The two elements taken in the opposite order.
Fq2_exchanged(e0, e1) == [c0 |-> e1, c1 |-> e0]

\* Fq2::from_base_prime_field_elems(&[e0, e1]): c0 = e0, c1 = e1.
Fq2(e0, e1) == [c0 |-> e0, c1 |-> e1]

(***************************************************************************)
(* from_seal (lines 122-154), statement by statement.  The value is Ok of  *)
(* the proof or Err of the panic that aborted the call.                    *)
(***************************************************************************)
from_seal(seal_bytes, verdict) ==
    LET n == Len(seal_bytes) IN
    IF n < 32 THEN Err(Panic(127, "slice_index"))
    ELSE IF n < 64 THEN Err(Panic(128, "slice_index"))
    ELSE
    LET ax == Fq(Slice(seal_bytes, 0, 32))
        ay == Fq(Slice(seal_bytes, 32, 64))
    IN
    IF ~G1Affine_new(ax, ay) THEN Err(Panic(126, "assert_on_curve"))
    ELSE IF n < 128 THEN Err(Panic(133, "slice_index"))
    ELSE IF n < 192 THEN Err(Panic(138, "slice_index"))
    ELSE
    LET bx == Fq2(Fq(Slice(seal_bytes, 96, 128)), Fq(Slice(seal_bytes, 64, 96)))
        by == Fq2(Fq(Slice(seal_bytes, 160, 192)), Fq(Slice(seal_bytes, 128, 160)))
    IN
    IF ~G2Affine_new(bx, by, verdict) THEN Err(Panic(131, "assert_on_curve"))
    ELSE IF n < 224 THEN Err(Panic(145, "slice_index"))
    ELSE IF n < 256 THEN Err(Panic(146, "slice_index"))
    ELSE
    LET cx == Fq(Slice(seal_bytes, 192, 224))
        cy == Fq(Slice(seal_bytes, 224, 256))
    IN
    IF ~G1Affine_new(cx, cy) THEN Err(Panic(144, "assert_on_curve"))
    ELSE Ok([a |-> [x |-> ax, y |-> ay],
             b |-> [x |-> bx, y |-> by],
             c |-> [x |-> cx, y |-> cy]])

(***************************************************************************)
(* calculate_succinct_output_prefix (lines 90-120).  `sha256` is the       *)
(* digest the Sha256 hasher returns for the bytes it was fed.              *)
(***************************************************************************)
\* SystemState { pc: 0, merkle_root: Digest::default() }, lines 103-106
post_state == [pc |-> 0, merkle_root |-> Zeros(DigestLen)]

calculate_succinct_output_prefix(mid, sha256) ==
    LET succinct_control_root_bytes ==
            [i \in 1..DigestLen |-> reverse_bits(backend.control_root[i])] \o <<>>
        pre_state_bytes == mid
        control_id_bytes == backend.control_id
        post_state_bytes == backend.state_digest[post_state]
    IN [hashed |-> succinct_control_root_bytes \o pre_state_bytes
                     \o post_state_bytes \o control_id_bytes,
        result |-> sha256]

(***************************************************************************)
(* expected_output_bytes (lines 58-65).  `blake3` is the digest the        *)
(* blake3 hasher returns for the bytes it was fed.                         *)
(***************************************************************************)
\* The digest kept whole.
ExpectedOutput_untruncated(prefix, journal_bytes, blake3) ==
    [hashed |-> prefix \o journal_bytes,
     bytes |-> blake3]

ExpectedOutput(prefix, journal_bytes, blake3) ==
    [hashed |-> prefix \o journal_bytes,
     bytes |-> SubSeq(blake3, 1, TruncLen)]

\* ark_bn254::Fr::from_be_bytes_mod_order(&expected_output_bytes), line 74
public_input_scalar(bytes) == from_be_bytes_mod_order(bytes, FrModulus)

(***************************************************************************)
(* get_ark_verifying_key (lines 156-270).  The key's coordinates are kept  *)
(* as the decimal literals of the source.                                  *)
(***************************************************************************)
G1(x, y) == [x |-> x, y |-> y]

G2(x0, x1, y0, y1) == [x |-> Fq2(x0, x1), y |-> Fq2(y0, y1)]

alpha_g1 ==
    G1("20491192805390485299153009773594534940189261866228447918068658471970481763042",
       "9383485363053290200918347156157836566562967994039712273449902621266178545958")

beta_g2 ==
    G2("6375614351688725206403948262868962793625744043794305715222011528459656738731",
       "4252822878758300859123897981450591353533073413197771768651442665752259397132",
       "10505242626370262277552901082094356697409835680220590971873171140371331206856",
       "21847035105528745403288232691147584728191162732299865338377159692350059136679")

gamma_g2 ==
    G2("10857046999023057135944570762232829481370756359578518086990519993285655852781",
       "11559732032986387107991004021392285783925812861821192530917403151452391805634",
       "8495653923123431417604973247489272438418190587263600148770280649306958101930",
       "4082367875863433681332203403145435568316851327593401208105741076214120093531")

delta_g2 ==
    G2("19928663713463533589216209779412278386769407450988172849262535478593422929698",
       "19916519943909223643323234301580053157586699704876134064841182937085943926141",
       "4584600978911428195337731119171761277167808711062125916470525050324985708782",
       "903010326261527050999816348900764705196723158942686053018929539519969664840")

\* The vector with its second entry left out.
gamma_abc_g1_short ==
    << G1("6698887085900109660417671413804888867145870700073340970189635830129386206569",
          "10431087902009508261375793061696708147989126018612269070732549055898651692604") >>

gamma_abc_g1 ==
    << G1("6698887085900109660417671413804888867145870700073340970189635830129386206569",
          "10431087902009508261375793061696708147989126018612269070732549055898651692604"),
       G1("20225609417084538563062516991929114218412992453664808591983416996515711931386",
          "3236310410959095762960658876334609343091075204896196791007975095263664214628") >>

get_ark_verifying_key ==
    [alpha_g1 |-> alpha_g1,
     beta_g2 |-> beta_g2,
     gamma_g2 |-> gamma_g2,
     delta_g2 |-> delta_g2,
     gamma_abc_g1 |-> gamma_abc_g1]

\* ark_groth16::prepare_verifying_key: the key with its precomputed pairing
\* values, which are functions of the key alone.
prepare_verifying_key(vk) == [vk |-> vk, prepared |-> TRUE]

\* Groth16::verify_proof (ark-groth16 0.4): prepare_inputs fails with
\* MalformedVerifyingKey when the input count does not fit the key;
\* otherwise the result is the verdict of the pairing equation.
verify_proof(pvk, proof, inputs, pairing_holds) ==
    IF Len(inputs) + 1 # Len(pvk.vk.gamma_abc_g1)
    THEN Err("MalformedVerifyingKey")
    ELSE Ok(pairing_holds)

(***************************************************************************)
(* Inputs                                                                  *)
(***************************************************************************)
\* Seals of SealLen - MaxSlack .. SealLen + MaxSlack bytes are tried.
MaxSlack == 1

Ramp(n, from, step) == [i \in 1..n |-> (from + step * i) % 256]

F0 == Zeros(DigestLen)
F1 == Small(DigestLen, 1)
F2 == Small(DigestLen, 2)
FP1 == Add(FqModulus, F1)
FP2 == Add(FqModulus, F2)
FF == Fill(DigestLen, 255)

\* (x, y) of A and of C: the generator (1, 2); the same point written with
\* unreduced coordinates (p + 1, p + 2); points off the curve.
FieldsA == {<<F1, F2>>, <<FP1, FP2>>, <<F0, F0>>}

FieldsC == {<<F1, F2>>, <<F2, F1>>}

\* The four 32-byte fields of B, in seal order: the G2 generator with two of
\* its elements unreduced; the generator with the first element of each
\* coordinate written first; all zeros.
FieldsB ==
    { <<G2_GENERATOR_X_C1, Add(FqModulus, G2_GENERATOR_X_C0),
        Add(FqModulus, G2_GENERATOR_Y_C1), G2_GENERATOR_Y_C0>>,
      <<G2_GENERATOR_X_C0, G2_GENERATOR_X_C1,
        G2_GENERATOR_Y_C0, G2_GENERATOR_Y_C1>>,
      <<F0, F0, F0, F0>> }

SealBodies ==
    { a[1] \o a[2] \o b[1] \o b[2] \o b[3] \o b[4] \o c[1] \o c[2] :
        a \in FieldsA, b \in FieldsB, c \in FieldsC }

Resize(bytes, n) ==
    IF n <= Len(bytes) THEN SubSeq(bytes, 1, n)
    ELSE bytes \o Fill(n - Len(bytes), 170)

SealSamples ==
    { Resize(body, SealLen + d) : body \in SealBodies, d \in (0 - MaxSlack)..MaxSlack }

\* The journal of the guest run on 15 * 2^27 + 1, another word, no bytes.
JournalSamples == {<<1, 0, 0, 120>>, <<2, 0, 0, 0>>, <<>>}

InnerSamples ==
    { [kind |-> "groth16", seal |-> sl] : sl \in SealSamples }
    \cup { [kind |-> k, seal |-> <<>>] : k \in {"succinct", "fake"} }

ReceiptSamples ==
    { [journal |-> j, inner |-> i] : j \in JournalSamples, i \in InnerSamples }

MethodIdSamples == {Zeros(DigestLen), Ramp(DigestLen, 128, 1)}

SystemStateSamples == {post_state, [pc |-> 4, merkle_root |-> Zeros(DigestLen)]}

BackendSamples ==
    { [control_root |-> Ramp(DigestLen, 0, 1),
       control_id |-> Ramp(DigestLen, 200, 1),
       state_digest |-> [st \in SystemStateSamples |-> Ramp(DigestLen, 64 + st.pc, 1)]],
      [control_root |-> Ramp(DigestLen, 255, 253),
       control_id |-> Ramp(DigestLen, 7, 5),
       state_digest |-> [st \in SystemStateSamples |-> Ramp(DigestLen, 96 + st.pc, 3)]] }

Sha256Samples == {Ramp(DigestLen, 16, 1), FF}

Blake3Samples == {FF, Ramp(DigestLen, 0, 2)}

(***************************************************************************)
(* main (lines 11-88), one action per statement                            *)
(***************************************************************************)
Init ==
    /\ pc = "build_env"
    /\ panic = None
    /\ log = <<>>
    /\ backend \in BackendSamples
    /\ method_id \in MethodIdSamples
    /\ receipt = None
    /\ receipt_verdict = None
    /\ sha_input = None
    /\ output_prefix = None
    /\ blake3_input = None
    /\ expected_output = None
    /\ expected_output_bytes = None
    /\ groth_seal = None
    /\ ark_proof = None
    /\ public_inputs = None
    /\ ark_vk = None
    /\ ark_pvk = None
    /\ res = None

\* The order with the proof extracted right after the self-check and the
\* scalar derived before the seal is parsed.
Statements_extract_first ==
    << "build_env", "prove", "decode_journal", "receipt_verify", "groth16",
       "output_prefix", "expected_output", "public_input", "from_seal",
       "get_vk", "prepare_vk", "verify_proof", "assert_res", "done" >>

\* The statements of main in program order.
Statements ==
    << "build_env", "prove", "decode_journal", "receipt_verify",
       "output_prefix", "expected_output", "groth16", "from_seal",
       "public_input", "get_vk", "prepare_vk", "verify_proof", "assert_res",
       "done" >>

NextStmt(at) ==
    Statements[1 + CHOOSE i \in 1..(Len(Statements) - 1) : Statements[i] = at]

\* The statement `at` completes and control falls through to the next one.
Step(at) ==
    /\ pc = at
    /\ pc' = NextStmt(at)
    /\ log' = Append(log, at)
    /\ panic' = None

\* The statement `at` panics; the process aborts.
Abort(at, p) ==
    /\ pc = at
    /\ pc' = "panicked"
    /\ log' = Append(log, at)
    /\ panic' = Some(p)

\* lines 30-35: the environment holding the input word
BuildEnv ==
    /\ Step("build_env")
    /\ UNCHANGED <<backend, method_id, receipt, receipt_verdict, sha_input,
                   output_prefix, blake3_input, expected_output,
                   expected_output_bytes, groth_seal, ark_proof,
                   public_inputs, ark_vk, ark_pvk, res>>

\* lines 38-47: prove_with_opts(..).unwrap(), then prove_info.receipt
Prove ==
    /\ pc = "prove"
    /\ \E outcome \in {Err("prove")} \cup {Ok(r) : r \in ReceiptSamples} :
         IF outcome.ok
         THEN Step("prove") /\ receipt' = Some(outcome.val)
         ELSE Abort("prove", Panic(42, "unwrap")) /\ UNCHANGED receipt
    /\ UNCHANGED <<backend, method_id, receipt_verdict, sha_input,
                   output_prefix, blake3_input, expected_output,
                   expected_output_bytes, groth_seal, ark_proof,
                   public_inputs, ark_vk, ark_pvk, res>>

\* line 52: receipt.journal.decode::<u32>().unwrap() needs one 4-byte word
DecodeJournal ==
    /\ pc = "decode_journal"
    /\ IF Len(Get(receipt).journal) >= 4
       THEN Step("decode_journal")
       ELSE Abort("decode_journal", Panic(52, "unwrap"))
    /\ UNCHANGED <<backend, method_id, receipt, receipt_verdict, sha_input,
                   output_prefix, blake3_input, expected_output,
                   expected_output_bytes, groth_seal, ark_proof,
                   public_inputs, ark_vk, ark_pvk, res>>

\* receipt.verify(METHOD_ID) with its Result dropped.
ReceiptVerify_unchecked ==
    /\ pc = "receipt_verify"
    /\ \E verdict \in {Ok("verified"), Err("VerificationError")} :
         receipt_verdict' = Some(verdict)
    /\ Step("receipt_verify")
    /\ UNCHANGED <<backend, method_id, receipt, sha_input,
                   output_prefix, blake3_input, expected_output,
                   expected_output_bytes, groth_seal, ark_proof,
                   public_inputs, ark_vk, ark_pvk, res>>

\* lines 54-56: receipt.verify(METHOD_ID).unwrap()
ReceiptVerify ==
    /\ pc = "receipt_verify"
    /\ \E verdict \in {Ok("verified"), Err("VerificationError")} :
         /\ receipt_verdict' = Some(verdict)
         /\ IF verdict.ok
            THEN Step("receipt_verify")
            ELSE Abort("receipt_verify", Panic(54, "unwrap"))
    /\ UNCHANGED <<backend, method_id, receipt, sha_input,
                   output_prefix, blake3_input, expected_output,
                   expected_output_bytes, groth_seal, ark_proof,
                   public_inputs, ark_vk, ark_pvk, res>>

\* line 60: calculate_succinct_output_prefix(METHOD_ID)
OutputPrefix ==
    /\ Step("output_prefix")
    /\ \E sha256 \in Sha256Samples :
         LET r == calculate_succinct_output_prefix(method_id, sha256) IN
         /\ sha_input' = Some(r.hashed)
         /\ output_prefix' = Some(r.result)
    /\ UNCHANGED <<backend, method_id, receipt, receipt_verdict,
                   blake3_input, expected_output,
                   expected_output_bytes, groth_seal, ark_proof,
                   public_inputs, ark_vk, ark_pvk, res>>

\* lines 58-65: the first 31 bytes of blake3(prefix || journal)
ExpectedOutputBytes ==
    /\ Step("expected_output")
    /\ \E blake3 \in Blake3Samples :
         LET r == ExpectedOutput(Get(output_prefix), Get(receipt).journal, blake3) IN
         /\ blake3_input' = Some(r.hashed)
         /\ expected_output' = Some(blake3)
         /\ expected_output_bytes' = Some(r.bytes)
    /\ UNCHANGED <<backend, method_id, receipt, receipt_verdict, sha_input,
                   output_prefix, groth_seal, ark_proof,
                   public_inputs, ark_vk, ark_pvk, res>>

\* line 71: receipt.inner.groth16().expect("Not a groth16 proof!!!")
ExtractGroth16 ==
    /\ pc = "groth16"
    /\ IF Get(receipt).inner.kind = "groth16"
       THEN Step("groth16") /\ groth_seal' = Some(Get(receipt).inner.seal)
       ELSE Abort("groth16", Panic(71, "expect")) /\ UNCHANGED groth_seal
    /\ UNCHANGED <<backend, method_id, receipt, receipt_verdict, sha_input,
                   output_prefix, blake3_input, expected_output,
                   expected_output_bytes, ark_proof,
                   public_inputs, ark_vk, ark_pvk, res>>

\* line 72: from_seal(&groth_proof.seal.as_slice())
FromSeal ==
    /\ pc = "from_seal"
    /\ \E seal \in groth_seal, verdict \in BOOLEAN :
         \E r \in {from_seal(seal, verdict)} :
         IF r.ok
         THEN Step("from_seal") /\ ark_proof' = Some(r.val)
         ELSE Abort("from_seal", r.err) /\ UNCHANGED ark_proof
    /\ UNCHANGED <<backend, method_id, receipt, receipt_verdict, sha_input,
                   output_prefix, blake3_input, expected_output,
                   expected_output_bytes, groth_seal,
                   public_inputs, ark_vk, ark_pvk, res>>

\* lines 73-74, and the slice built from the scalar at line 82
PublicInput ==
    /\ Step("public_input")
    /\ public_inputs' = Some(<<public_input_scalar(Get(expected_output_bytes))>>)
    /\ UNCHANGED <<backend, method_id, receipt, receipt_verdict, sha_input,
                   output_prefix, blake3_input, expected_output,
                   expected_output_bytes, groth_seal, ark_proof,
                   ark_vk, ark_pvk, res>>

\* line 76
GetVerifyingKey ==
    /\ Step("get_vk")
    /\ ark_vk' = Some(get_ark_verifying_key)
    /\ UNCHANGED <<backend, method_id, receipt, receipt_verdict, sha_input,
                   output_prefix, blake3_input, expected_output,
                   expected_output_bytes, groth_seal, ark_proof,
                   public_inputs, ark_pvk, res>>

\* line 77
PrepareVerifyingKey ==
    /\ Step("prepare_vk")
    /\ ark_pvk' = Some(prepare_verifying_key(Get(ark_vk)))
    /\ UNCHANGED <<backend, method_id, receipt, receipt_verdict, sha_input,
                   output_prefix, blake3_input, expected_output,
                   expected_output_bytes, groth_seal, ark_proof,
                   public_inputs, ark_vk, res>>

\* lines 79-84: verify_proof(..).unwrap()
VerifyProof ==
    /\ pc = "verify_proof"
    /\ \E pairing_holds \in BOOLEAN :
         LET r == verify_proof(Get(ark_pvk), Get(ark_proof), Get(public_inputs), pairing_holds) IN
         /\ res' = Some(r)
         /\ IF r.ok
            THEN Step("verify_proof")
            ELSE Abort("verify_proof", Panic(79, "unwrap"))
    /\ UNCHANGED <<backend, method_id, receipt, receipt_verdict, sha_input,
                   output_prefix, blake3_input, expected_output,
                   expected_output_bytes, groth_seal, ark_proof,
                   public_inputs, ark_vk, ark_pvk>>

\* The result bound and never asserted.
AssertRes_unasserted ==
    /\ Step("assert_res")
    /\ UNCHANGED <<backend, method_id, receipt, receipt_verdict, sha_input,
                   output_prefix, blake3_input, expected_output,
                   expected_output_bytes, groth_seal, ark_proof,
                   public_inputs, ark_vk, ark_pvk, res>>

\* assert!(!res, ..)
AssertRes_negated ==
    /\ pc = "assert_res"
    /\ IF ~Get(res).val
       THEN Step("assert_res")
       ELSE Abort("assert_res", Panic(86, "assert"))
    /\ UNCHANGED <<backend, method_id, receipt, receipt_verdict, sha_input,
                   output_prefix, blake3_input, expected_output,
                   expected_output_bytes, groth_seal, ark_proof,
                   public_inputs, ark_vk, ark_pvk, res>>

\* line 86: assert!(res, "proof verification failed for receipt")
AssertRes ==
    /\ pc = "assert_res"
    /\ IF Get(res).val
       THEN Step("assert_res")
       ELSE Abort("assert_res", Panic(86, "assert"))
    /\ UNCHANGED <<backend, method_id, receipt, receipt_verdict, sha_input,
                   output_prefix, blake3_input, expected_output,
                   expected_output_bytes, groth_seal, ark_proof,
                   public_inputs, ark_vk, ark_pvk, res>>

Next ==
    \/ BuildEnv
    \/ Prove
    \/ DecodeJournal
    \/ ReceiptVerify
    \/ OutputPrefix
    \/ ExpectedOutputBytes
    \/ ExtractGroth16
    \/ FromSeal
    \/ PublicInput
    \/ GetVerifyingKey
    \/ PrepareVerifyingKey
    \/ VerifyProof
    \/ AssertRes

Spec == Init /\ [][Next]_vars

(***************************************************************************)
(* Properties                                                              *)
(***************************************************************************)
Ran(stmt) == \E i \in 1..Len(log) : log[i] = stmt

IsPrefix(p, q) == Len(p) <= Len(q) /\ SubSeq(q, 1, Len(p)) = p

\* The i-th 32-byte field of a seal, i = 0..7.
Field(bytes, i) == SubSeq(bytes, DigestLen * i + 1, DigestLen * (i + 1))

RECURSIVE PlusModulus(_, _, _)
\* fe + k * m as a 32-byte number, or the empty string when it does not fit.
PlusModulus(fe, k, m) ==
    IF k = 0 THEN fe
    ELSE LET prev == PlusModulus(fe, k - 1, m) IN
         IF prev = <<>> THEN <<>>
         ELSE LET sum == Add(prev, m) IN IF Lt(sum, prev) THEN <<>> ELSE sum

\* fe is the canonical residue modulo m of the big-endian number `bytes`.
Encodes(fe, bytes, m) ==
    /\ Lt(fe, m)
    /\ \E k \in 0..5 : PlusModulus(fe, k, m) = bytes

BitAt(b, k) == (b \div (2 ^ k)) % 2

FromSealReturned == groth_seal # None /\ pc # "from_seal"

Panicked(p) == pc = "panicked" /\ panic = Some(p)

----------------------------------------------------------------------------
\* C1: a seal whose length is not 256 makes from_seal fail (any abort inside
\* from_seal counts as the decode failure), and pairing verification is never
\* reached for it.
C1_WrongLengthRejected ==
    (FromSealReturned /\ Len(Get(groth_seal)) # SealLen)
        => (pc = "panicked" /\ ~Ran("public_input") /\ ark_proof = None /\ res = None)

----------------------------------------------------------------------------
\* C2 as stated: a pairing check that does not hold yields an explicit false
\* result that is not raised as a fault.
C2_RejectionIsNotAFault ==
    res = Some(Ok(FALSE)) => pc # "panicked"

\* C2 amended: a pairing check that does not hold is returned by verify_proof
\* as Ok(false), never as an error; main then aborts with the assertion panic of
\* line 86, which is raised for a rejected proof and for nothing else, while
\* every structural failure aborts with a different panic.
C2_RejectionIsADistinctPanic ==
    /\ (res = Some(Ok(FALSE)) /\ pc # "assert_res") => Panicked(Panic(86, "assert"))
    /\ Panicked(Panic(86, "assert")) => (res = Some(Ok(FALSE)) /\ ark_proof # None)
    /\ (pc = "panicked" /\ (ark_proof = None \/ res = None \/ ~Get(res).ok))
          => Get(panic).kind \in {"unwrap", "expect", "slice_index", "assert_on_curve"}

C2_Witness == Panicked(Panic(86, "assert")) /\ res = Some(Ok(FALSE))

----------------------------------------------------------------------------
\* C3 as stated: parsing a 256-byte seal always produces a proof.
C3_ParseNeverFails ==
    (FromSealReturned /\ Len(Get(groth_seal)) = SealLen) => ark_proof # None

\* C3 amended: parsing a 256-byte seal never fails on a slice, and it returns
\* a proof only if A and C are on the curve and B is on the twist; otherwise
\* from_seal panics in the point constructor, before any pairing.
C3_ParseChecksCurve ==
    (FromSealReturned /\ Len(Get(groth_seal)) = SealLen) =>
        \/ /\ ark_proof # None
           /\ IsOnCurveG1(Get(ark_proof).a.x, Get(ark_proof).a.y)
           /\ IsOnCurveG2(Get(ark_proof).b.x, Get(ark_proof).b.y)
           /\ IsOnCurveG1(Get(ark_proof).c.x, Get(ark_proof).c.y)
        \/ /\ ark_proof = None
           /\ pc = "panicked"
           /\ Get(panic).kind = "assert_on_curve"
           /\ Get(panic).line \in {126, 131, 144}
           /\ res = None

C3_Witness ==
    /\ Panicked(Panic(126, "assert_on_curve"))
    /\ Len(Get(groth_seal)) = SealLen
    /\ Field(Get(groth_seal), 0) = F0

----------------------------------------------------------------------------
----------------------------------------------------------------------------
\* C5: when receipt.verify fails the process aborts there; no core step has
\* run and none can run afterwards.
C5_SelfCheckFailureAborts ==
    (receipt_verdict # None /\ ~Get(receipt_verdict).ok) =>
        /\ Panicked(Panic(54, "unwrap"))
        /\ ~ENABLED Next
        /\ \A st \in {"output_prefix", "expected_output", "groth16", "from_seal",
                      "public_input", "get_vk", "prepare_vk", "verify_proof"} :
              ~Ran(st)
        /\ sha_input = None /\ output_prefix = None /\ blake3_input = None
        /\ expected_output_bytes = None /\ groth_seal = None /\ ark_proof = None
        /\ public_inputs = None /\ ark_vk = None /\ res = None

C5_Witness == receipt_verdict = Some(Err("VerificationError")) /\ pc = "panicked"

----------------------------------------------------------------------------
\* C6 as stated: the Groth16 proof is extracted from the receipt before the
\* output prefix and the public-input hash are computed.
C6_ExtractionBeforeHashing ==
    (output_prefix # None \/ expected_output_bytes # None) => Ran("groth16")

\* C6 amended: every run is a prefix of: obtain receipt, decode journal,
\* self-check, output-prefix hash, public-input hash truncated to 31 bytes,
\* Groth16 extraction, seal parsing, scalar reduction, key construction and
\* preparation, pairing verification, assertion of the result.
C6_PipelineOrder ==
    /\ IsPrefix(log, << "build_env", "prove", "decode_journal", "receipt_verify",
                        "output_prefix", "expected_output", "groth16",
                        "from_seal", "public_input", "get_vk", "prepare_vk",
                        "verify_proof", "assert_res" >>)
    /\ Ran("groth16") => (output_prefix # None /\ expected_output_bytes # None)
    /\ groth_seal # None => Ran("groth16")
    /\ public_inputs # None => ark_proof # None
    /\ output_prefix # None => receipt_verdict = Some(Ok("verified"))

C6_Witness == Panicked(Panic(71, "expect")) /\ expected_output_bytes # None

----------------------------------------------------------------------------
\* C7: the public input is the big-endian value of the first 31 bytes of the
\* blake3 digest of prefix || journal; it is below 2^248, hence below the
\* scalar-field order, and the reduction leaves it unchanged.
C7_PublicInputIsTruncatedDigest ==
    (public_inputs # None) =>
        LET bytes == Get(expected_output_bytes)
            inputs == Get(public_inputs)
        IN /\ Get(blake3_input) = Get(output_prefix) \o Get(receipt).journal
           /\ Len(bytes) = TruncLen
           /\ \A i \in 1..TruncLen : bytes[i] = Get(expected_output)[i]
           /\ Len(inputs) = 1
           /\ inputs[1] = <<0>> \o bytes
           /\ Lt(inputs[1], FrModulus)

C7_Witness ==
    /\ public_inputs # None
    /\ expected_output = Some(FF)
    /\ Len(Get(receipt).journal) = 4

----------------------------------------------------------------------------
\* C8: the SHA-256 input of calculate_succinct_output_prefix is 128 bytes: the
\* control root with the bits of each byte reversed, the program identity, the
\* digest of the halt state {pc = 0, merkle_root = 0}, the control identity.
C8_PrefixPreimage ==
    (sha_input # None) =>
        LET hashed == Get(sha_input) IN
        /\ Len(hashed) = 4 * DigestLen
        /\ \A i \in 1..DigestLen : \A k \in 0..7 :
              BitAt(hashed[i], k) = BitAt(backend.control_root[i], 7 - k)
        /\ SubSeq(hashed, DigestLen + 1, 2 * DigestLen) = method_id
        /\ SubSeq(hashed, 2 * DigestLen + 1, 3 * DigestLen)
              = backend.state_digest[[pc |-> 0, merkle_root |-> Zeros(DigestLen)]]
        /\ SubSeq(hashed, 3 * DigestLen + 1, 4 * DigestLen) = backend.control_id
        /\ Len(Get(output_prefix)) = DigestLen

C8_Witness ==
    /\ sha_input # None
    /\ Get(sha_input)[1] # backend.control_root[1]
    /\ Get(receipt).journal # <<1, 0, 0, 120>>

----------------------------------------------------------------------------
\* C9: verification is called with one public input and a key of two
\* gamma_abc entries, so it never returns the input-count error; the key is
\* built once and is the one used.
C9_InputCountMatchesKey ==
    /\ ark_vk # None =>
          /\ Len(Get(ark_vk).gamma_abc_g1) = 2
          /\ Cardinality({i \in 1..Len(log) : log[i] = "get_vk"}) = 1
    /\ ark_pvk # None => Get(ark_pvk).vk = Get(ark_vk)
    /\ pc = "verify_proof" =>
          Len(Get(public_inputs)) + 1 = Len(Get(ark_pvk).vk.gamma_abc_g1)
    /\ res # None =>
          (Get(res).ok /\ Len(Get(public_inputs)) = 1 /\ panic # Some(Panic(79, "unwrap")))

C9_Witness ==
    pc = "assert_res" /\ Get(res).ok /\ Len(Get(ark_pvk).vk.gamma_abc_g1) = 2

----------------------------------------------------------------------------
\* C10: main completes only after the self-check succeeded, a Groth16 proof
\* was extracted and parsed, and verify_proof returned Ok(true); every other
\* run ends aborted, and an aborted run takes no further step.
C10_FailClosed ==
    /\ pc = "done" =>
          /\ receipt_verdict = Some(Ok("verified"))
          /\ Get(receipt).inner.kind = "groth16"
          /\ groth_seal = Some(Get(receipt).inner.seal)
          /\ ark_proof # None
          /\ res = Some(Ok(TRUE))
          /\ panic = None
    /\ pc = "panicked" => (panic # None /\ ~ENABLED Next)
    /\ ~ENABLED Next => pc \in {"done", "panicked"}

C10_Witness == pc = "done" /\ res = Some(Ok(TRUE))

=============================================================================
